---- MODULE Spec2Model ----
(***************************************************************************)
(* Live-data polling of the weather dashboard, in six of its components:    *)
(*   "App"   src/frontend/src/App.js            (App, one endpoint,        *)
(*           AbortController timeout, polling started on mount)            *)
(*   "Map"   src/unnamed/part_000               (MapComponent, stations,   *)
(*           silent auto-refresh held in refreshIntervalRef)               *)
(*   "River" src/frontend/src/RiverDashboard.js (RiverDashboard)           *)
(*   "Home"  src/frontend/src/Homepage.js       (App, stations, one fetch  *)
(*           per station change, no interval)                              *)
(*   "Landing" src/frontend/src/Homepage.js     (Homepage, currentWeather  *)
(*           held in weatherData, no loading and no error state)           *)
(*   "WeatherApp" src/unnamed/part_002          (WeatherApp, one endpoint, *)
(*           polled every 5000 ms, no timeout)                             *)
(* A behaviour is the life of one component instance.  Init is the state   *)
(* after the first render and its mount effects.  Every await of the code  *)
(* is a suspension point: a request in flight sits at "fetch" (awaiting    *)
(* fetch()) or at "json" (awaiting response.json()).  Messages are         *)
(* sequences of words, so that String.includes is a real test.             *)
(***************************************************************************)
EXTENDS Integers, Sequences, FiniteSets, TLC

VARIABLES rev, browser, mounted, currentStationId, weatherData, loading,
          error, reqs, timers, refreshIntervalRef, interval,
          activeTab, historicalData, historicalLoading, historicalError,
          hreqs,
          currentView, isSidebarOpen, requestLoading, notification, posts,
          errors,
          clock, tickIn, dismissIn

\* the historical-data state of the station dashboards
histData == <<historicalData, historicalLoading, historicalError, hreqs>>
histVars == <<activeTab, histData>>

\* the view, the sidebar, the data-request form and the notification
formVars == <<currentView, isSidebarOpen, requestLoading, notification,
              posts, errors>>
\* formVars without isSidebarOpen and notification
formData == <<currentView, requestLoading, posts, errors>>

\* whether delays are tracked, the time until the polling interval is due
\* and the time until the dismiss timer of the notification is due
clockVars == <<clock, tickIn, dismissIn>>

vars == <<rev, browser, mounted, currentStationId, weatherData, loading,
          error, reqs, timers, refreshIntervalRef, interval, histVars,
          formVars, clockVars>>

\* ---------------------------------------------------------------- bounds
MaxInflight == 2
\* historical-data requests in flight
MaxHist == 1
\* data-request submissions in flight
MaxPosts == 2

\* ------------------------------------------------------------- constants
IntervalMs == 30000
TimeoutMs == 8000
\* setInterval of WeatherApp and of Homepage
IntervalMsWeatherApp == 5000
IntervalMsLanding == 300000
\* setTimeout(onClose, ...) of the three Notification components
NoticeMsApp == 6000
NoticeMsMap == 4000
NoticeMsWeatherApp == 5000

Revisions == {"App", "Map", "River", "Home", "Landing", "WeatherApp"}

\* the components that select a station
StationRevisions == {"Map", "Home"}

weatherStations ==
    << [id |-> "weather-v2", name |-> "Adishankara Weather Station",
        status |-> "active"],
       [id |-> "station-Airport Road", name |-> "Kochi Airport Road Station",
        status |-> "development"] >>

StationIds == {weatherStations[n].id : n \in 1..Len(weatherStations)}

\* weatherStations.find(s => s.id === stationId)?.status
StationStatus(stationId) ==
    IF \E n \in 1..Len(weatherStations) : weatherStations[n].id = stationId
    THEN LET n == CHOOSE m \in 1..Len(weatherStations) :
                      weatherStations[m].id = stationId
         IN weatherStations[n].status
    ELSE "undefined"

NoStation == "null"
NoData == [temperature |-> 0 - 1000]
NoError == <<>>
NoTimer == 0

\* ---------------------------------------------------------------- inputs
\* payloads of a 2xx answer of GET /weather
Temps == {24, 25}
\* the reading's date and time in the payload, as a number
Times == {1, 2}
Payloads == {[temperature |-> t, time |-> u] : t \in Temps, u \in Times}
OkStatus == "200"
ErrStatuses == {"404", "500"}
\* the engines the page runs in, and the message of the TypeError a failed
\* fetch() rejects with in each
Browsers == {"chromium", "webkit"}
NetworkMessage ==
    IF browser = "chromium" THEN <<"Failed", "to", "fetch">>
    ELSE <<"Load", "failed">>
\* message of the SyntaxError response.json() rejects with
ParseMessage == <<"Unexpected", "token", "<", "in", "JSON">>

\* ------------------------------------------------------ errors, messages
AbortError == [name |-> "AbortError",
               message |-> <<"The", "user", "aborted", "a", "request.">>]
TypeError(msg) == [name |-> "TypeError", message |-> msg]
SyntaxError == [name |-> "SyntaxError", message |-> ParseMessage]

\* the Error thrown on !response.ok
HttpError(status) ==
    [name |-> "Error",
     message |->
        IF rev = "App" THEN <<"HTTP", status, ":", "statusText">>
        ELSE IF rev = "Map"
             THEN <<"HTTP", status, ":", "Failed", "to", "fetch", "data">>
             ELSE IF rev = "Home" THEN <<"Network", "error">>
                  ELSE IF rev = "WeatherApp"
                       THEN <<"Network", "response", "was", "not", "ok">>
                       ELSE <<"Server", "responded", "with", "status:",
                              status>>]

\* String.prototype.includes, on words
Includes(msg, word) == \E n \in 1..Len(msg) : msg[n] = word

TimeoutMessage ==
    <<"Request", "timeout", "-", "Please", "check", "your", "connection">>
UnableToConnect ==
    <<"Unable", "to", "connect", "to", "weather", "station.", "Please",
      "check", "your", "internet", "connection.">>
FailedToFetch ==
    <<"Failed", "to", "fetch", "weather", "data", "from", "the", "station.">>
UnderDevelopment ==
    <<"This", "station", "is", "currently", "under", "development", "and",
      "not", "providing", "live", "data.">>

UnderDevelopmentHome == <<"This", "station", "is", "under", "development.">>
FailedToFetchHome == <<"Failed", "to", "fetch", "weather", "data.">>

\* the argument of setError in the development branch of fetchWeatherData
DevelopmentMessage ==
    IF rev = "Home" THEN UnderDevelopmentHome ELSE UnderDevelopment

\* a catch block that reports nothing
CatchMessageNone(err) == NoError

\* the argument of setError in the catch block
CatchMessage(err) ==
    IF rev = "App"
    THEN IF err.name = "AbortError" THEN TimeoutMessage
         ELSE <<"Connection", "failed:">> \o err.message
    ELSE IF rev = "Map"
         THEN IF Includes(err.message, "fetch") THEN UnableToConnect
              ELSE FailedToFetch
         ELSE IF rev = "Home" THEN FailedToFetchHome
              ELSE IF rev = "WeatherApp" THEN <<"Failed", "to", "fetch">>
                   ELSE err.message

\* -------------------------------------------------------------- requests
\* the resource a component instance polls when it has no station
Endpoint == IF rev = "River" THEN "river-data" ELSE "weather"

\* one call of fetchWeatherData / fetchData that reached its fetch():
\* guard is the state of its setTimeout(() => controller.abort(), 8000);
\* overtaken records that a request started later for the same key has
\* already completed
NewRequest(key, showLoader) ==
    [key |-> key, showLoader |-> showLoader, phase |-> "fetch",
     guard |-> IF rev = "App" THEN "armed" ELSE "none",
     overtaken |-> FALSE]

\* loading after the statements that precede the fetch()
LoadingOnStart(showLoader, old) ==
    IF rev \in {"App", "Home"} THEN TRUE
    ELSE IF rev = "Map" THEN (IF showLoader THEN TRUE ELSE old)
         ELSE old

\* a finally block that forgets the loading indicator
LoadingOnFinallyKept(r, old) == old

\* loading after the finally block of request r
LoadingOnFinally(r, old) ==
    IF rev = "Map" THEN (IF r.showLoader THEN FALSE ELSE old)
    ELSE FALSE

\* the requests left in flight when request i has run to its end
Settled(i) ==
    [n \in 1..(Len(reqs) - 1) |->
        IF n < i
        THEN [reqs[n] EXCEPT
                !.overtaken = @ \/ reqs[n].key = reqs[i].key]
        ELSE reqs[n + 1]]

\* ---------------------------------------------------------------- timers
TimerIds == {t.id : t \in timers}

\* the handle setInterval returns: never one that is still referenced
NewTimerId ==
    CHOOSE n \in 1..(Cardinality(timers) + 3) :
        /\ n \notin TimerIds
        /\ n # refreshIntervalRef
        /\ n # interval
        /\ \A m \in 1..(n - 1) :
              m \in TimerIds \/ m = refreshIntervalRef \/ m = interval

\* clearInterval(id)
ClearInterval(ts, id) == {t \in ts : t.id # id}

\* ---------------------------------------------------------- notification
\* useState({ show: false, message: '', type: '' }); useState(null) of
\* MapComponent is held as the same value
NoNotice == [show |-> FALSE, type |-> "", message |-> <<>>]
\* the argument of setNotification in showNotification(message, type)
Notice(message, type) == [show |-> TRUE, type |-> type, message |-> message]

\* the components with a notification state
NoticeRevisions == {"App", "Map", "WeatherApp"}
\* the components that switch between the landing page and the dashboard
ViewRevisions == {"App", "Home"}

\* weatherStations.find(s => s.id === stationId).name
StationName(stationId) ==
    LET n == CHOOSE m \in 1..Len(weatherStations) :
                 weatherStations[m].id = stationId
    IN weatherStations[n].name

\* ----------------------------------------------------------------- clocks
\* Delays are counted in units of TimeUnit ms, the largest unit that
\* divides the polling interval and the dismiss delay of the component.
\* With clock = "off" no delay is tracked: a timer is due from the moment
\* it is set and may fire at any later moment.
TimeUnit ==
    IF rev = "WeatherApp" THEN 5000 ELSE IF rev = "Map" THEN 2000 ELSE 6000
PollMs ==
    IF rev = "WeatherApp" THEN IntervalMsWeatherApp
    ELSE IF rev = "Landing" THEN IntervalMsLanding ELSE IntervalMs
NoticeMs ==
    IF rev = "WeatherApp" THEN NoticeMsWeatherApp
    ELSE IF rev = "Map" THEN NoticeMsMap ELSE NoticeMsApp
\* no timer is set
Idle == 0 - 1
\* the delay of a timer set now
SetTimer(ms) == IF clock = "on" THEN ms \div TimeUnit ELSE 0

\* the Notification component is mounted and shows: App renders it on the
\* dashboard only, MapComponent only while notification is not null
NoticeRendered ==
    /\ mounted
    /\ rev \in NoticeRevisions
    /\ rev \in ViewRevisions => currentView = "weather"
    /\ notification.show

\* the state of the component that owns the notification
parentState ==
    <<currentStationId, weatherData, loading, error, activeTab,
      historicalData, historicalLoading, historicalError, currentView,
      isSidebarOpen, requestLoading, notification>>

\* The timers after a step of the component.  ticked: the step is the
\* callback of the polling interval, which is then due again after PollMs.
\* fresh: the step sets a state to a new object, so the component renders
\* again even if the contents are the same.  Every render passes a new
\* onClose to Notification, whose effect clears its timer and sets it anew.
Clocks(ticked, fresh) ==
    /\ clock' = clock
    /\ tickIn' = IF timers' = {} THEN Idle
                 ELSE IF ticked \/ ~(TimerIds' \subseteq TimerIds)
                      THEN SetTimer(PollMs)
                      ELSE tickIn
    /\ dismissIn' =
          IF NoticeRendered'
          THEN IF fresh \/ parentState' # parentState \/ dismissIn = Idle
               THEN SetTimer(NoticeMs)
               ELSE dismissIn
          ELSE Idle

\* ------------------------------------------------------------------ Init
\* useState(...) of loading (Homepage has no such state)
InitialLoading == rev \in {"App", "River", "Home", "WeatherApp"}

\* the live and historical data after the first render and the mount
\* effects
MountedData(c) ==
    /\ rev \in Revisions
    /\ browser \in Browsers
    /\ clock = c
    /\ mounted = TRUE
    /\ weatherData = NoData
    /\ error = NoError
    /\ refreshIntervalRef = NoTimer
    /\ historicalData = <<>>
    /\ historicalLoading = FALSE
    /\ historicalError = NoError
    /\ hreqs = <<>>
    /\ IF rev = "Map"
       THEN /\ currentStationId = NoStation
            /\ loading = InitialLoading
            /\ reqs = <<>>
            /\ timers = {}
            /\ interval = NoTimer
       ELSE IF rev = "Home"
       THEN \* mount effect: fetchWeatherData(currentStationId)
            /\ currentStationId = weatherStations[1].id
            /\ loading = LoadingOnStart(TRUE, InitialLoading)
            /\ reqs = <<NewRequest(weatherStations[1].id, TRUE)>>
            /\ timers = {}
            /\ interval = NoTimer
       ELSE \* mount effect: fetchWeatherData(); setInterval(..., 30000)
            /\ currentStationId = NoStation
            /\ loading = LoadingOnStart(TRUE, InitialLoading)
            /\ reqs = <<NewRequest(Endpoint, TRUE)>>
            /\ timers = {[id |-> 1, key |-> Endpoint]}
            /\ interval = 1
    /\ tickIn = (IF timers = {} THEN Idle ELSE SetTimer(PollMs))

\* the state after the first render and the mount effects, in view `view`
\* where the component has views
Mounted(view, c) ==
    /\ MountedData(c)
    /\ currentView = (IF rev \in ViewRevisions THEN view ELSE "weather")
    /\ isSidebarOpen = FALSE
    /\ requestLoading = FALSE
    /\ notification = NoNotice
    /\ posts = <<>>
    /\ errors = {}
    /\ dismissIn = Idle
    /\ activeTab = "live"

\* useState('homepage') of the components with views
Init == \E c \in {"off", "on"} : Mounted("homepage", c)

\* the dashboard as the user opens it: navigateToWeather('live') from Init
Dashboard == Mounted("weather", "off")

\* ----------------------------------------------------- starting a refresh
\* a fetchWeatherData without the early return for stations under
\* development
fetchWeatherDataUnguarded(stationId, showLoader) ==
    /\ loading' = LoadingOnStart(showLoader, loading)
    /\ reqs' = Append(reqs, NewRequest(stationId, showLoader))
    /\ UNCHANGED <<weatherData, error>>

\* fetchWeatherData(stationId, showLoader) of MapComponent, up to its first
\* await; the station under development returns before any request
fetchWeatherData(stationId, showLoader) ==
    IF StationStatus(stationId) = "development"
    THEN /\ weatherData' = NoData
         /\ error' = DevelopmentMessage
         /\ loading' = FALSE
         /\ reqs' = reqs
    ELSE /\ loading' = LoadingOnStart(showLoader, loading)
         /\ reqs' = Append(reqs, NewRequest(stationId, showLoader))
         /\ UNCHANGED <<weatherData, error>>

\* an effect without its cleanup function
EffectCleanupMissing == timers

\* cleanup of the auto-refresh effect of MapComponent
EffectCleanup ==
    IF refreshIntervalRef # NoTimer
    THEN ClearInterval(timers, refreshIntervalRef)
    ELSE timers

\* the auto-refresh effect of MapComponent, run for station stationId after
\* the cleanup of its previous run
AutoRefreshEffect(stationId) ==
    IF stationId # NoStation /\ StationStatus(stationId) = "active"
    THEN /\ timers' = EffectCleanup \cup {[id |-> NewTimerId, key |-> stationId]}
         /\ refreshIntervalRef' = NewTimerId
    ELSE /\ timers' = EffectCleanup
         /\ refreshIntervalRef' = refreshIntervalRef

\* a click on a station marker: handleStationSelect, then the render it
\* causes, which re-runs the effects when currentStationId has changed.
\* MapComponent fetches in the handler and re-runs its auto-refresh effect;
\* App of Homepage.js fetches in the effect and has no timer.
handleStationSelect(stationId) ==
    /\ rev \in StationRevisions
    /\ mounted
    /\ currentView = "weather"
    /\ StationStatus(stationId) = "development" \/ Len(reqs) < MaxInflight
    /\ currentStationId' = stationId
    /\ IF rev = "Map"
       THEN /\ fetchWeatherData(stationId, TRUE)
            /\ IF stationId # currentStationId
               THEN AutoRefreshEffect(stationId)
               ELSE UNCHANGED <<timers, refreshIntervalRef>>
       ELSE /\ IF stationId # currentStationId
               THEN fetchWeatherData(stationId, TRUE)
               ELSE UNCHANGED <<weatherData, error, loading, reqs>>
            /\ UNCHANGED <<timers, refreshIntervalRef>>
    /\ activeTab' = "live"
    /\ isSidebarOpen' = TRUE
    /\ notification' =
          IF rev = "Map"
          THEN Notice(<<"Selected", StationName(stationId)>>, "info")
          ELSE notification
    /\ errors' = {}
    /\ UNCHANGED <<currentView, requestLoading, posts, histData, rev,
                   browser, mounted, interval>>
    /\ Clocks(FALSE, rev = "Map")

\* a tick of an interval timer.  In App the 8000 ms abort timer of every
\* request is set before and is due before the tick 30000 ms after it, so
\* no abort timer is still armed when the tick runs.
Tick(t) ==
    /\ t \in timers
    /\ tickIn = 0
    /\ Len(reqs) < MaxInflight
    /\ (TimeoutMs < IntervalMs) =>
           \A n \in 1..Len(reqs) : reqs[n].guard # "armed"
    /\ IF rev = "Map"
       THEN fetchWeatherData(t.key, FALSE)
       ELSE /\ loading' = LoadingOnStart(TRUE, loading)
            /\ reqs' = Append(reqs, NewRequest(t.key, TRUE))
            /\ UNCHANGED <<weatherData, error>>
    /\ UNCHANGED <<formVars, histVars, rev, browser, mounted,
                   currentStationId, timers, refreshIntervalRef, interval>>
    /\ Clocks(TRUE, FALSE)

\* -------------------------------------------------------- ending a refresh
\* a catch block that drops the data it cannot refresh
CatchClearsData(i, err) ==
    /\ error' = CatchMessage(err)
    /\ weatherData' = NoData
    /\ loading' = LoadingOnFinally(reqs[i], loading)
    /\ reqs' = Settled(i)
    /\ notification' =
          IF rev = "Map" THEN Notice(CatchMessage(err), "error")
          ELSE notification
    /\ UNCHANGED <<formData, isSidebarOpen, histVars, rev, browser, mounted,
                   currentStationId, timers, refreshIntervalRef, interval>>
    /\ Clocks(FALSE, rev = "Map")

\* a catch block that gives up polling after a failure
CatchStopsPolling(i, err) ==
    /\ error' = IF rev = "Landing" THEN error ELSE CatchMessage(err)
    /\ weatherData' = weatherData
    /\ loading' = LoadingOnFinally(reqs[i], loading)
    /\ reqs' = Settled(i)
    /\ timers' = {}
    /\ notification' =
          IF rev = "Map" THEN Notice(CatchMessage(err), "error")
          ELSE notification
    /\ UNCHANGED <<formData, isSidebarOpen, histVars, rev, browser, mounted,
                   currentStationId, refreshIntervalRef, interval>>
    /\ Clocks(FALSE, rev = "Map")

\* catch (err) { setError(...) } finally { setLoading(false) }; the catch
\* block of Homepage only logs
Catch(i, err) ==
    /\ error' = IF rev = "Landing" THEN error ELSE CatchMessage(err)
    /\ weatherData' = weatherData
    /\ loading' = LoadingOnFinally(reqs[i], loading)
    /\ reqs' = Settled(i)
    /\ notification' =
          IF rev = "Map" THEN Notice(CatchMessage(err), "error")
          ELSE notification
    /\ UNCHANGED <<formData, isSidebarOpen, histVars, rev, browser, mounted,
                   currentStationId, timers, refreshIntervalRef, interval>>
    /\ Clocks(FALSE, rev = "Map")

\* fetch() rejects: the network is unreachable
FetchRejects(i) ==
    /\ i \in 1..Len(reqs)
    /\ reqs[i].phase = "fetch"
    /\ Catch(i, TypeError(NetworkMessage))

\* the abort timer fires while fetch() is pending
Timeout(i) ==
    /\ i \in 1..Len(reqs)
    /\ reqs[i].phase = "fetch"
    /\ reqs[i].guard = "armed"
    /\ Catch(i, AbortError)

\* the call returns without a throw and without a state change
Returns(i) ==
    /\ reqs' = Settled(i)
    /\ UNCHANGED <<formVars, histVars, rev, browser, mounted,
                   currentStationId, weatherData, loading, error, timers,
                   refreshIntervalRef, interval>>
    /\ Clocks(FALSE, FALSE)

\* fetch() resolves with the response headers: clearTimeout(timeoutId),
\* then throw on !response.ok, else await response.json(); Homepage skips
\* the answer that is not ok
FetchResolves(i, status) ==
    /\ i \in 1..Len(reqs)
    /\ reqs[i].phase = "fetch"
    /\ IF status = OkStatus
       THEN /\ reqs' = [reqs EXCEPT
                          ![i].phase = "json",
                          ![i].guard = IF @ = "armed" THEN "cleared" ELSE @]
            /\ UNCHANGED <<formVars, histVars, rev, browser, mounted,
                           currentStationId, weatherData, loading, error,
                           timers, refreshIntervalRef, interval>>
            /\ Clocks(FALSE, FALSE)
       ELSE IF rev = "Landing" THEN Returns(i)
            ELSE Catch(i, HttpError(status))

\* a success path without setError(null)
JsonResolvesKeepsError(i, data) ==
    /\ i \in 1..Len(reqs)
    /\ reqs[i].phase = "json"
    /\ weatherData' = data
    /\ error' = error
    /\ loading' = LoadingOnFinally(reqs[i], loading)
    /\ reqs' = Settled(i)
    /\ UNCHANGED <<formVars, histVars, rev, browser, mounted,
                   currentStationId, timers, refreshIntervalRef, interval>>
    /\ Clocks(FALSE, TRUE)

\* response.json() resolves: setWeatherData(data); setError(null); finally
JsonResolves(i, data) ==
    /\ i \in 1..Len(reqs)
    /\ reqs[i].phase = "json"
    /\ weatherData' = data
    /\ error' = NoError
    /\ loading' = LoadingOnFinally(reqs[i], loading)
    /\ reqs' = Settled(i)
    /\ UNCHANGED <<formVars, histVars, rev, browser, mounted,
                   currentStationId, timers, refreshIntervalRef, interval>>
    /\ Clocks(FALSE, TRUE)

\* response.json() rejects: the body is not JSON
JsonRejects(i) ==
    /\ i \in 1..Len(reqs)
    /\ reqs[i].phase = "json"
    /\ Catch(i, SyntaxError)

\* -------------------------------------------------------- historical data
\* the tabs of the sidebar that show fetched data (the request form of the
\* third tab reads none of this state)
Tabs == {"live", "historical"}
\* result.data of a 2xx answer of GET /historical-data
HistPayloads == {<<24>>}

NoHistoryMap ==
    <<"No", "historical", "data", "available", "for", "stations", "under",
      "development.">>
NoHistoryHome ==
    <<"No", "historical", "data", "for", "development", "stations.">>
FailedHistory == <<"Failed", "to", "fetch", "historical", "data">>

\* fetchHistoricalData(days), up to its first await, for the station in
\* currentStationId; days only enters the URL
fetchHistoricalData ==
    IF rev = "Map" /\ currentStationId' = NoStation
    THEN UNCHANGED histData
    ELSE IF StationStatus(currentStationId') = "development"
    THEN /\ historicalData' = <<>>
         /\ historicalError' =
                (IF rev = "Map" THEN NoHistoryMap ELSE NoHistoryHome)
         /\ historicalLoading' = historicalLoading
         /\ hreqs' = hreqs
    ELSE /\ Len(hreqs) < MaxHist
         /\ historicalLoading' = TRUE
         /\ historicalError' = NoError
         /\ hreqs' = Append(hreqs, currentStationId')
         /\ historicalData' = historicalData

\* the tabs of the sidebar of each component; the two sections of
\* WeatherApp (activeSection 'dashboard' and 'data-request') are held in
\* activeTab as "live" and "request"
SidebarTabs ==
    IF rev \in StationRevisions THEN {"live", "historical", "request"}
    ELSE IF rev \in {"App", "WeatherApp"} THEN {"live", "request"}
         ELSE {}

\* the effect of HistoricalCharts: MapComponent's fetches for an active
\* station only, that of Homepage.js always
HistoricalChartsEffect ==
    IF rev = "Map" /\ StationStatus(currentStationId') # "active"
    THEN UNCHANGED histData
    ELSE fetchHistoricalData

\* a click on a tab of the sidebar; the historical tab mounts
\* HistoricalCharts, whose effect runs
setActiveTab(tab) ==
    /\ tab \in SidebarTabs
    /\ mounted
    /\ currentView = "weather"
    /\ isSidebarOpen \/ rev = "WeatherApp"
    /\ tab # activeTab
    /\ activeTab' = tab
    /\ errors' = {}
    /\ UNCHANGED <<currentView, isSidebarOpen, requestLoading, notification,
                   posts, rev, browser, mounted, currentStationId,
                   weatherData, loading, error, reqs, timers,
                   refreshIntervalRef, interval>>
    /\ IF tab = "historical" THEN HistoricalChartsEffect
       ELSE UNCHANGED histData
    /\ Clocks(FALSE, FALSE)

\* another number of days is chosen in HistoricalCharts: its effect re-runs
setSelectedDays ==
    /\ rev \in StationRevisions
    /\ mounted
    /\ currentView = "weather"
    /\ isSidebarOpen
    /\ activeTab = "historical"
    /\ UNCHANGED <<formVars, activeTab, rev, browser, mounted,
                   currentStationId, weatherData, loading, error, reqs,
                   timers, refreshIntervalRef, interval>>
    /\ HistoricalChartsEffect
    /\ Clocks(FALSE, FALSE)

\* the historical requests left in flight when request i has ended
HSettled(i) ==
    [n \in 1..(Len(hreqs) - 1) |-> IF n < i THEN hreqs[n] ELSE hreqs[n + 1]]

\* catch (err) { setHistoricalError(err.message) } finally {...};
\* MapComponent also calls showNotification(err.message, 'error')
HCatch(i, msg) ==
    /\ historicalError' = msg
    /\ historicalLoading' = FALSE
    /\ hreqs' = HSettled(i)
    /\ notification' =
          IF rev = "Map" THEN Notice(msg, "error") ELSE notification
    /\ UNCHANGED <<formData, isSidebarOpen, activeTab, historicalData, rev,
                   browser, mounted, currentStationId, weatherData, loading,
                   error, reqs, timers, refreshIntervalRef, interval>>
    /\ Clocks(FALSE, rev = "Map")

\* A historical request holds no timer and writes nothing between its two
\* awaits, so each request ends in one step.
\* fetch() of the historical data rejects
HFetchRejects(i) ==
    /\ i \in 1..Len(hreqs)
    /\ HCatch(i, NetworkMessage)

\* fetch() and response.json() resolve: throw on !response.ok, else
\* setHistoricalData(result.data || []); MapComponent also notifies of
\* the data points it loaded
HJsonResolves(i, ok, data) ==
    /\ i \in 1..Len(hreqs)
    /\ IF ok
       THEN /\ historicalData' = data
            /\ historicalLoading' = FALSE
            /\ hreqs' = HSettled(i)
            /\ notification' =
                  IF rev = "Map" /\ Len(data) > 0
                  THEN Notice(<<"Loaded", Len(data), "data", "points">>,
                              "success")
                  ELSE notification
            /\ UNCHANGED <<formData, isSidebarOpen, activeTab,
                           historicalError, rev, browser, mounted,
                           currentStationId, weatherData, loading, error,
                           reqs, timers, refreshIntervalRef, interval>>
            /\ Clocks(FALSE, TRUE)
       ELSE HCatch(i, FailedHistory)

\* fetch() resolves and response.json() rejects
HJsonRejects(i) ==
    /\ i \in 1..Len(hreqs)
    /\ HCatch(i, ParseMessage)

\* --------------------------------------------------------------- teardown
\* an unmount that leaves the interval running
UnmountKeepsInterval ==
    /\ mounted
    /\ mounted' = FALSE
    /\ UNCHANGED <<formVars, histVars, rev, browser, currentStationId,
                   weatherData, loading, error, reqs, timers,
                   refreshIntervalRef, interval>>
    /\ Clocks(FALSE, FALSE)

\* the cleanup functions of the effects, run when the component unmounts
Unmount ==
    /\ mounted
    /\ mounted' = FALSE
    /\ timers' = IF rev = "Map" THEN EffectCleanup
                 ELSE ClearInterval(timers, interval)
    /\ UNCHANGED <<formVars, histVars, rev, browser, currentStationId,
                   weatherData, loading, error, reqs, refreshIntervalRef,
                   interval>>
    /\ Clocks(FALSE, FALSE)

\* ------------------------------------------------------------- navigation
\* everything but the view, the sidebar, the tab and the form errors
navFrame ==
    <<requestLoading, notification, posts, histData, rev, browser, mounted,
      currentStationId, weatherData, loading, error, reqs, timers,
      refreshIntervalRef, interval>>

\* the tabs Homepage asks for: handleAccessWeatherApp, handleDataRequest
LandingTabs == {"live", "request"}

\* navigateToWeather(tab), called by Homepage; that of Homepage.js takes no
\* argument and only sets the view
navigateToWeather(tab) ==
    /\ rev \in ViewRevisions
    /\ mounted
    /\ currentView = "homepage"
    /\ currentView' = "weather"
    /\ IF rev = "App"
       THEN /\ activeTab' = tab
            /\ isSidebarOpen' = (IF tab = "request" THEN TRUE
                                 ELSE isSidebarOpen)
       ELSE UNCHANGED <<activeTab, isSidebarOpen>>
    /\ errors' = {}
    /\ UNCHANGED navFrame
    /\ Clocks(FALSE, FALSE)

\* navigateToHome, the home button of the Header; that of Homepage.js only
\* sets the view
navigateToHome ==
    /\ rev \in ViewRevisions
    /\ mounted
    /\ currentView = "weather"
    /\ currentView' = "homepage"
    /\ isSidebarOpen' = (IF rev = "App" THEN FALSE ELSE isSidebarOpen)
    /\ errors' = {}
    /\ UNCHANGED <<activeTab, navFrame>>
    /\ Clocks(FALSE, FALSE)

\* openSidebarWithTab(tab) of App: the Header buttons and the map marker
openSidebarWithTab(tab) ==
    /\ rev = "App"
    /\ mounted
    /\ currentView = "weather"
    /\ activeTab' = tab
    /\ isSidebarOpen' = TRUE
    /\ errors' = (IF tab = activeTab THEN errors ELSE {})
    /\ UNCHANGED <<currentView, navFrame>>
    /\ Clocks(FALSE, FALSE)

\* onClose of the Sidebar: setIsSidebarOpen(false)
closeSidebar ==
    /\ rev \in {"App", "Map", "Home"}
    /\ mounted
    /\ currentView = "weather"
    /\ isSidebarOpen
    /\ isSidebarOpen' = FALSE
    /\ UNCHANGED <<currentView, activeTab, errors, navFrame>>
    /\ Clocks(FALSE, FALSE)

\* onSidebarToggle of the Header: setIsSidebarOpen(!isSidebarOpen)
onSidebarToggle ==
    /\ rev \in StationRevisions
    /\ mounted
    /\ currentView = "weather"
    /\ isSidebarOpen' = ~isSidebarOpen
    /\ UNCHANGED <<currentView, activeTab, errors, navFrame>>
    /\ Clocks(FALSE, FALSE)

\* ------------------------------------------------------- data-request form
\* the components with a DataRequestForm
FormRevisions == {"App", "Map", "Home", "WeatherApp"}

\* what the user has typed: an address as its characters, the dates as day
\* numbers (NoDate: the field is empty), purpose and data_type filled or not
NoDate == 0
Emails ==
    { <<>>, <<"u", "@", "h">>, <<"u", "@", "h", ".", "o">>,
      <<"u", "@", "h", ".", "i", "o">> }
Dates == {NoDate, 1, 2}
\* new Date() at the time of the click, as a day number
Today == 1
Forms ==
    [email : Emails, start_date : Dates, end_date : Dates,
     purpose : {"", "research"}, data_type : {"", "all"}]

\* /\S+@\S+\.\S+/.test(email), of App
MatchesLoosely(e) ==
    \E a \in 2..Len(e), d \in 1..Len(e) :
        /\ e[a] = "@"
        /\ d >= a + 2
        /\ e[d] = "."
        /\ d < Len(e)

\* /^[a-zA-Z0-9._%+-]+@[a-zA-Z0-9.-]+\.[a-zA-Z]{2,}$/.test(email), of
\* WeatherApp
MatchesStrictly(e) ==
    \E a \in 2..Len(e), d \in 1..Len(e) :
        /\ e[a] = "@"
        /\ \A k \in 1..Len(e) : k # a => e[k] # "@"
        /\ d >= a + 2
        /\ e[d] = "."
        /\ Len(e) - d >= 2
        /\ \A k \in (d + 1)..Len(e) : e[k] # "."

\* validateForm of App and of MapComponent: the fields with an error
validateForm(f) ==
    (IF f.email = <<>> \/ (rev = "App" /\ ~MatchesLoosely(f.email))
     THEN {"email"} ELSE {})
    \cup (IF f.start_date = NoDate THEN {"start_date"} ELSE {})
    \cup (IF \/ f.end_date = NoDate
             \/ /\ f.start_date # NoDate
                /\ f.start_date > f.end_date
          THEN {"end_date"} ELSE {})
    \cup (IF rev = "Map" /\ f.purpose = "" THEN {"purpose"} ELSE {})

\* the click on the submit button reaches onSubmit(formData):
\* validateAndSubmit of App and WeatherApp, handleSubmit of MapComponent;
\* the button of Homepage.js calls onSubmit at once
PassesValidation(f) ==
    IF rev \in {"App", "Map"} THEN validateForm(f) = {}
    ELSE IF rev = "WeatherApp"
         THEN /\ f.email # <<>>
              /\ f.start_date # NoDate
              /\ f.end_date # NoDate
              /\ f.data_type # ""
              /\ MatchesStrictly(f.email)
              /\ ~(f.start_date > f.end_date)
              /\ ~(f.end_date > Today)
         ELSE TRUE

\* the form is on the screen: in the open sidebar on its request tab, or
\* in the data-request section of WeatherApp
FormShown ==
    /\ mounted
    /\ rev \in FormRevisions
    /\ currentView = "weather"
    /\ activeTab = "request"
    /\ isSidebarOpen \/ rev = "WeatherApp"

\* one call of handleDataRequest that reached its fetch(): guard is the
\* state of its setTimeout(() => controller.abort(), 15000)
NewPost(f) ==
    [form |-> f, phase |-> "fetch", status |-> OkStatus,
     guard |-> IF rev = "App" THEN "armed" ELSE "none"]

\* a submit button that is never disabled
SubmitDisabledNever == FALSE

\* disabled={loading} of the submit button
SubmitDisabled == requestLoading

\* a click on the submit button with f in the form
submit(f) ==
    /\ FormShown
    /\ ~SubmitDisabled
    /\ IF PassesValidation(f)
       THEN \* handleDataRequest(formData), up to its first await
            /\ Len(posts) < MaxPosts
            /\ requestLoading' = TRUE
            /\ posts' = Append(posts, NewPost(f))
            /\ errors' = {}
       ELSE /\ errors' = (IF rev \in {"App", "Map"} THEN validateForm(f)
                          ELSE errors)
            /\ UNCHANGED <<requestLoading, posts>>
    /\ UNCHANGED <<currentView, isSidebarOpen, notification, histVars, rev,
                   browser, mounted, currentStationId, weatherData, loading,
                   error, reqs, timers, refreshIntervalRef, interval>>
    /\ Clocks(FALSE, FALSE)

\* the submissions left in flight when submission i has ended
PostSettled(i) ==
    [n \in 1..(Len(posts) - 1) |-> IF n < i THEN posts[n] ELSE posts[n + 1]]

SubmittedApp ==
    <<"Success!", "Your", "request", "has", "been", "submitted", "for",
      "admin", "approval.">>
SubmittedMap ==
    <<"Data", "request", "submitted", "successfully!", "You", "will",
      "receive", "an", "email", "confirmation.">>
SubmittedWeatherApp ==
    <<"Data", "request", "sent", "successfully!", "You", "will", "receive",
      "the", "data", "via", "email.">>
PostTimeoutMessage == <<"Request", "timeout", "-", "Please", "try", "again">>

\* result.error of the answer to a rejected submission; NoError: absent
ServerErrors == {NoError, <<"Invalid", "date", "range">>}

\* the Error thrown on !response.ok: result.error || the default text
PostError(status, serverError) ==
    [name |-> "Error",
     message |->
        IF rev = "Home" THEN <<"Submission", "failed">>
        ELSE IF serverError # NoError THEN serverError
        ELSE IF rev = "App" THEN <<"HTTP", status, ":", "Request", "failed">>
        ELSE IF rev = "Map" THEN <<"Failed", "to", "submit", "request">>
        ELSE <<"Failed", "to", "send", "request">>]

\* the notification of the catch block
PostFailureNotice(err) ==
    IF rev = "App"
    THEN IF err.name = "AbortError" THEN Notice(PostTimeoutMessage, "error")
         ELSE Notice(<<"Error:">> \o err.message, "error")
    ELSE IF rev = "Map"
         THEN Notice(IF err.message # <<>> THEN err.message
                     ELSE <<"Failed", "to", "submit", "data", "request">>,
                     "error")
         ELSE IF rev = "WeatherApp"
              THEN Notice(<<"Failed", "to", "send", "data", "request:">>
                              \o err.message, "error")
              ELSE notification

\* finally { setRequestLoading(false) }
RequestLoadingOnFinally == FALSE

postFrame ==
    <<currentView, errors, histVars, rev, browser, mounted, currentStationId,
      weatherData, loading, error, reqs, timers, refreshIntervalRef,
      interval>>

\* the try block ran to its end: showNotification(..., 'success'), and
\* setIsSidebarOpen(false) in App; Homepage.js does nothing here
PostSucceeds(i) ==
    /\ notification' =
          IF rev = "App" THEN Notice(SubmittedApp, "success")
          ELSE IF rev = "Map" THEN Notice(SubmittedMap, "success")
          ELSE IF rev = "WeatherApp"
               THEN Notice(SubmittedWeatherApp, "success")
               ELSE notification
    /\ isSidebarOpen' = (IF rev = "App" THEN FALSE ELSE isSidebarOpen)
    /\ requestLoading' = RequestLoadingOnFinally
    /\ posts' = PostSettled(i)
    /\ UNCHANGED postFrame
    /\ Clocks(FALSE, rev \in NoticeRevisions)

\* catch (err) { showNotification(..., 'error') } finally {...}
PostCatch(i, err) ==
    /\ notification' = PostFailureNotice(err)
    /\ requestLoading' = RequestLoadingOnFinally
    /\ posts' = PostSettled(i)
    /\ UNCHANGED <<isSidebarOpen, postFrame>>
    /\ Clocks(FALSE, rev \in NoticeRevisions)

\* fetch() of the POST rejects
PostRejects(i) ==
    /\ i \in 1..Len(posts)
    /\ posts[i].phase = "fetch"
    /\ PostCatch(i, TypeError(NetworkMessage))

\* the abort timer of the POST fires while fetch() is pending
PostTimeout(i) ==
    /\ i \in 1..Len(posts)
    /\ posts[i].phase = "fetch"
    /\ posts[i].guard = "armed"
    /\ PostCatch(i, AbortError)

\* fetch() of the POST resolves.  App and MapComponent read the body
\* before they test response.ok; WeatherApp reads it only when the answer
\* is not ok; Homepage.js never reads it.
PostResolves(i, status) ==
    /\ i \in 1..Len(posts)
    /\ posts[i].phase = "fetch"
    /\ IF rev \in {"App", "Map"} \/ (rev = "WeatherApp" /\ status # OkStatus)
       THEN /\ posts' = [posts EXCEPT
                           ![i].phase = "json",
                           ![i].status = status,
                           ![i].guard = IF @ = "armed" THEN "cleared" ELSE @]
            /\ UNCHANGED <<requestLoading, notification, isSidebarOpen,
                           postFrame>>
            /\ Clocks(FALSE, FALSE)
       ELSE IF status = OkStatus THEN PostSucceeds(i)
            ELSE PostCatch(i, PostError(status, NoError))

\* response.json() of the POST resolves
PostJsonResolves(i, serverError) ==
    /\ i \in 1..Len(posts)
    /\ posts[i].phase = "json"
    /\ IF posts[i].status = OkStatus THEN PostSucceeds(i)
       ELSE PostCatch(i, PostError(posts[i].status, serverError))

\* response.json() of the POST rejects: the body is not JSON
PostJsonRejects(i) ==
    /\ i \in 1..Len(posts)
    /\ posts[i].phase = "json"
    /\ PostCatch(i, SyntaxError)

\* ----------------------------------------------------- notification timer
\* onClose of the Notification: App hides the notification it rendered,
\* MapComponent sets null, WeatherApp resets the state (hideNotification)
onClose ==
    /\ notification' =
          IF rev = "App" THEN [notification EXCEPT !.show = FALSE]
          ELSE NoNotice
    /\ UNCHANGED <<currentView, isSidebarOpen, requestLoading, posts,
                   errors, histVars, rev, browser, mounted, currentStationId,
                   weatherData, loading, error, reqs, timers,
                   refreshIntervalRef, interval>>
    /\ Clocks(FALSE, TRUE)

\* the dismiss timer of the Notification fires
Dismiss ==
    /\ NoticeRendered
    /\ dismissIn = 0
    /\ onClose

\* a click on the close button of the Notification of MapComponent
closeNotification ==
    /\ rev = "Map"
    /\ NoticeRendered
    /\ onClose

\* time passes by one unit; no timer that is due is passed over
Advance ==
    /\ clock = "on"
    /\ tickIn # 0
    /\ dismissIn # 0
    /\ tickIn' = (IF tickIn = Idle THEN Idle ELSE tickIn - 1)
    /\ dismissIn' = (IF dismissIn = Idle THEN Idle ELSE dismissIn - 1)
    /\ UNCHANGED <<clock, formVars, histVars, rev, browser, mounted,
                   currentStationId, weatherData, loading, error, reqs,
                   timers, refreshIntervalRef, interval>>

\* ------------------------------------------------------------------- Next
Slots == 1..(MaxInflight + 1)
PSlots == 1..(MaxPosts + 1)
HSlots == 1..(MaxHist + 1)

\* the live weather data: its requests, its timers and the station picker
WeatherNext ==
    \/ \E s \in StationIds : handleStationSelect(s)
    \/ \E t \in timers : Tick(t)
    \/ \E i \in Slots : FetchRejects(i)
    \/ \E i \in Slots : Timeout(i)
    \/ \E i \in Slots, st \in {OkStatus} \cup ErrStatuses : FetchResolves(i, st)
    \/ \E i \in Slots, d \in Payloads : JsonResolves(i, d)
    \/ \E i \in Slots : JsonRejects(i)
    \/ Unmount

\* the historical tab of the sidebar and its requests
HistoryNext ==
    \/ \E tab \in Tabs : setActiveTab(tab)
    \/ setSelectedDays
    \/ \E i \in HSlots : HFetchRejects(i)
    \/ \E i \in HSlots, ok \in BOOLEAN, d \in HistPayloads :
          HJsonResolves(i, ok, d)
    \/ \E i \in HSlots : HJsonRejects(i)

\* the views, the sidebar and its tabs
NavNext ==
    \/ \E tab \in LandingTabs : navigateToWeather(tab)
    \/ navigateToHome
    \/ \E tab \in LandingTabs : openSidebarWithTab(tab)
    \/ closeSidebar
    \/ onSidebarToggle
    \/ \E tab \in {"live", "request"} : setActiveTab(tab)

\* the data-request form and its submissions
FormNext ==
    \/ \E f \in Forms : submit(f)
    \/ \E i \in PSlots : PostRejects(i)
    \/ \E i \in PSlots : PostTimeout(i)
    \/ \E i \in PSlots, st \in {OkStatus} \cup ErrStatuses :
          PostResolves(i, st)
    \/ \E i \in PSlots, e \in ServerErrors : PostJsonResolves(i, e)
    \/ \E i \in PSlots : PostJsonRejects(i)

\* the notification: its dismiss timer and its close button
NoticeSteps ==
    \/ Dismiss
    \/ closeNotification

Next ==
    \/ WeatherNext
    \/ HistoryNext
    \/ NavNext
    \/ FormNext
    \/ NoticeSteps
    \/ Advance

Spec == Init /\ [][Next]_vars

\* the landing page or the dashboard after the mount, delays not tracked
Landing == Mounted("homepage", "off")

\* the views, the data-request form and the notification; no step of it
\* reads the weather or the historical state
FormSpec == Landing /\ [][NavNext \/ FormNext \/ NoticeSteps]_vars

\* the dashboard with its live and historical data, delays not tracked
DashboardSpec == Dashboard /\ [][WeatherNext \/ HistoryNext]_vars

\* The live data alone, the sidebar left on its live tab: no step of
\* HistoryNext reads or writes mounted, currentStationId, reqs, timers or
\* the weather state, and no step of WeatherNext reads the historical one.
WeatherSpec == Dashboard /\ [][WeatherNext]_vars

\* timers fire (the abort timer, the polling interval); the server and the
\* user are under no obligation
FairSpec ==
    /\ DashboardSpec
    /\ \A i \in Slots : WF_vars(Timeout(i))
    /\ WF_vars(\E t \in timers : Tick(t))

\* the server answers request i, or the request ends otherwise
Progress(i) ==
    \/ \E st \in {OkStatus} \cup ErrStatuses : FetchResolves(i, st)
    \/ \E d \in Payloads : JsonResolves(i, d)
    \/ FetchRejects(i)
    \/ JsonRejects(i)
    \/ Timeout(i)

\* FairSpec with a server that leaves at most the oldest request in flight
\* without an answer
StalledSpec ==
    /\ FairSpec
    /\ \A i \in Slots \ {1} : WF_vars(Progress(i))

\* every request comes to an end (answered, failed or timed out), and the
\* interval fires whenever it is due: a tick is held back here only while
\* MaxInflight requests are in flight or an abort timer is due first
PollSpec ==
    /\ WeatherSpec
    /\ \A i \in Slots : WF_vars(Progress(i))
    /\ SF_vars(\E t \in timers : Tick(t))

\* the dashboards with a Notification, delays counted in units of
\* TimeUnit.  MapComponent as it is mounted; App and WeatherApp as the first
\* data request leaves them when it is accepted before the first answer
\* to GET /weather: the success notification is on, its timer is set.
Notified ==
    /\ rev \in NoticeRevisions
    /\ IF rev = "Map" THEN Mounted("weather", "on")
       ELSE /\ MountedData("on")
            /\ currentView = "weather"
            /\ activeTab = "request"
            /\ isSidebarOpen = FALSE
            /\ requestLoading = FALSE
            /\ notification =
                  Notice(IF rev = "App" THEN SubmittedApp
                         ELSE SubmittedWeatherApp, "success")
            /\ posts = <<>>
            /\ errors = {}
            /\ dismissIn = SetTimer(NoticeMs)

\* polling and the notification with the time between the timers
NoticeNext == NoticeSteps \/ WeatherNext \/ Advance

\* time passes, no due timer is passed over, a due timer fires unless it
\* is cleared first, and every request comes to an end
NoticeSpec ==
    /\ Notified
    /\ [][NoticeNext]_vars
    /\ WF_vars(Advance)
    /\ WF_vars(Dismiss)
    /\ SF_vars(\E t \in timers : Tick(t))
    /\ \A i \in Slots : WF_vars(Progress(i))

\* ------------------------------------------------------------------ views
\* isConnected, as the component passes it to its Header
isConnected ==
    /\ weatherData # NoData
    /\ error = NoError
    /\ rev = "Map" => StationStatus(currentStationId) = "active"

\* the date and time WeatherDisplay shows after "Last updated:"
LastUpdated(data) == IF data = NoData THEN 0 ELSE data.time

\* what the render guards let through: WeatherDisplay returns the spinner
\* when loading, the message when error or no data, else the readings;
\* RiverDashboard tests loading and error only and then reads data.*
View ==
    IF loading THEN "loading"
    ELSE IF error # NoError THEN "error"
         ELSE IF weatherData # NoData THEN "data"
              ELSE IF rev = "River" THEN "crash" ELSE "error"

\* the text a failure ends up as on the screen: RiverDashboard shows one
\* fixed text for every error, Homepage shows nothing
UserMessage(err) ==
    IF rev = "River"
    THEN <<"Unable", "to", "fetch", "river", "data.">>
    ELSE IF rev = "Landing" THEN NoError ELSE CatchMessage(err)

\* the errors a refresh can end with, one per failure kind and status
FailureErrors ==
    {TypeError(NetworkMessage), SyntaxError}
        \cup {HttpError(st) : st \in ErrStatuses}
        \cup (IF rev = "App" THEN {AbortError} ELSE {})

\* the resource key is set: the component polls one endpoint, or an active
\* station is selected
KeySet ==
    IF rev \in StationRevisions
    THEN StationStatus(currentStationId) = "active"
    ELSE TRUE

\* ----------------------------------------------------------------- claims
\* request i ends in the catch block
Fails(i) ==
    \/ FetchRejects(i)
    \/ Timeout(i)
    \/ \E st \in ErrStatuses : FetchResolves(i, st)
    \/ JsonRejects(i)

\* request i runs to its end
Ends(i) == Fails(i) \/ \E d \in Payloads : JsonResolves(i, d)

\* the components that hold an error state beside their data (Homepage
\* holds currentWeather only)
HasErrorState == rev # "Landing"

\* C1: a refresh that fails (timeout, network error, non-2xx status,
\* unparsable body) leaves the data held before it unchanged and, in every
\* component that has an error state, leaves a non-null error.
StaleDataRetention ==
    [][\A i \in Slots :
          Fails(i) => /\ weatherData' = weatherData
                      /\ HasErrorState => error' # NoError]_vars

\* C1: a poll answered {temperature: 24}, a later one failed on the network
StaleDataRetained ==
    /\ rev = "App"
    /\ browser = "chromium"
    /\ weatherData # NoData
    /\ weatherData.temperature = 24
    /\ error = <<"Connection", "failed:", "Failed", "to", "fetch">>

\* C2: no two requests for the same resource key are in flight together.
OneOutstandingPerKey ==
    \A i, j \in 1..Len(reqs) : i # j => reqs[i].key # reqs[j].key

\* C3: the end of a request that a later-started request for the same key
\* has already overtaken changes neither data nor error.
LastRequestWins ==
    [][\A i \in Slots :
          (i <= Len(reqs) /\ reqs[i].overtaken /\ Ends(i))
              => UNCHANGED <<weatherData, error>>]_vars

\* C4: after teardown no request is left in flight and data, error and
\* loading never change again.
NoMutationAfterTeardown ==
    [][/\ (~mounted') => reqs' = <<>>
       /\ (~mounted) => UNCHANGED <<weatherData, error, loading>>]_vars

\* C5: after teardown no interval timer is left and no request is started.
TeardownClearsTimer ==
    [][(~mounted') =>
          /\ timers' = {}
          /\ (~mounted) => Len(reqs') <= Len(reqs)]_vars

\* C5: a component torn down while its auto-refresh was running and a
\* request was in flight
TornDownWhilePolling ==
    /\ ~mounted
    /\ refreshIntervalRef # NoTimer
    /\ currentStationId = "weather-v2"
    /\ Len(reqs) > 0

\* C6: a consumer has at most one interval timer, and it belongs to the
\* resource key that is selected now.
OneTimerForCurrentKey ==
    /\ Cardinality(timers) <= 1
    /\ \A t \in timers :
          t.key = (IF rev \in StationRevisions THEN currentStationId
                   ELSE Endpoint)

\* C6: the station under development, selected after the active one had
\* its timer started
SwitchedAwayFromPolledStation ==
    /\ mounted
    /\ currentStationId = "station-Airport Road"
    /\ refreshIntervalRef # NoTimer

\* C7: loading is true only while a request is in flight.
LoadingImpliesOutstanding == loading => Len(reqs) > 0

\* C7: the loading indicator of a second, explicit refresh
LoadingAgain ==
    /\ rev = "Map"
    /\ loading
    /\ weatherData # NoData

\* C8: a refresh started by the polling timer leaves loading as it is.
SilentPolling ==
    [][(\E t \in timers : Tick(t)) => loading' = loading]_vars

\* C9: every request in flight has its abort timer armed, and the message
\* of a timeout differs from the message of a network error.
TimeoutGuard ==
    /\ \A n \in 1..Len(reqs) : reqs[n].guard = "armed"
    /\ CatchMessage(AbortError) # CatchMessage(TypeError(NetworkMessage))

\* C10: whenever loading is true it becomes false again, whatever the
\* server does, unless the consumer is torn down first.
LoadingEventuallyOff == loading ~> (~loading \/ ~mounted)

\* C11: a successful refresh replaces data by the payload and clears
\* error; where the header shows !!weatherData && !error the connection
\* status is 'Live' after it.
SuccessReplacesAndClears ==
    [][\A i \in Slots, d \in Payloads :
          JsonResolves(i, d) =>
              /\ weatherData' = d
              /\ error' = NoError
              /\ rev \in {"App", "Home"} => isConnected']_vars

\* C11: App is 'Live' with the later of two readings and nothing in flight
LiveAgain ==
    /\ rev = "App"
    /\ isConnected
    /\ weatherData.time = 2
    /\ ~loading
    /\ Len(reqs) = 0

\* C12: every successful refresh makes the time shown as last updated
\* strictly greater, and a failed refresh leaves it.
LastUpdatedIncreases ==
    [][\A i \in Slots :
          /\ \A d \in Payloads :
                JsonResolves(i, d) =>
                    LastUpdated(weatherData') > LastUpdated(weatherData)
          /\ Fails(i) =>
                LastUpdated(weatherData') = LastUpdated(weatherData)]_vars

\* C13: two failures of different kinds never end up as the same message.
MessagesDistinct ==
    \A e1, e2 \in FailureErrors :
        e1.name # e2.name => UserMessage(e1) # UserMessage(e2)

\* C15: a refresh answered with a status that is not 2xx ends with a
\* non-null error.
HttpErrorSurfaced ==
    [][\A i \in Slots, st \in ErrStatuses :
          FetchResolves(i, st) => error' # NoError]_vars

\* C16: after a refresh failed while data was held, the view shows the data
\* (with the error), not the error alone.
StaleDataShown ==
    [][\A i \in Slots :
          (Fails(i) /\ weatherData # NoData /\ rev # "Landing")
              => View' = "data"]_vars

\* C17: while the consumer is mounted with its key set an interval timer
\* for that key is running, and before any key is set there is neither a
\* timer nor a request.
AutomaticCadence ==
    /\ (mounted /\ KeySet) => timers # {}
    /\ (rev \in StationRevisions /\ currentStationId = NoStation)
          => (timers = {} /\ reqs = <<>>)

\* C18: while a station under development is selected, weatherData is
\* null.
DataBelongsToSelectedStation ==
    (rev \in StationRevisions
        /\ StationStatus(currentStationId) = "development")
            => weatherData = NoData

\* C20: RiverDashboard never renders its body without data (not loading
\* and no error imply data), and loading, once false, stays false.
RiverRenderSafety ==
    [][rev = "River" =>
          /\ (~loading' /\ error' = NoError) => weatherData' # NoData
          /\ View' # "crash"
          /\ (~loading) => ~loading']_vars

\* C20: the dashboard body is shown while a later poll is in flight
RiverBodyWhilePolling ==
    /\ rev = "River"
    /\ View = "data"
    /\ Len(reqs) > 0

\* C14: no failure stops or changes the polling timer, and in the
\* components that poll, a consumer that stays mounted with its key set
\* has its timer issue a request again and again, also after failures.
RetriedByNextTick ==
    /\ [][\A i \in Slots : Fails(i) => timers' = timers]_vars
    /\ \/ []<>(~mounted \/ ~KeySet \/ rev = "Home")
       \/ []<><<\E t \in timers : Tick(t)>>_vars

\* C14: a refresh has failed and a silent poll of the same station is in
\* flight
PollAfterFailure ==
    /\ rev = "Map"
    /\ mounted
    /\ error \in {UnableToConnect, FailedToFetch}
    /\ Len(reqs) = 1
    /\ ~reqs[1].showLoader

\* the development branch of fetchHistoricalData runs in this step: the
\* historical tab is opened, or its number of days changed, with a station
\* under development selected.  HistoricalCharts of MapComponent calls
\* fetchHistoricalData for active stations only.
HistoricalDevelopmentRefresh ==
    /\ rev = "Home"
    /\ StationStatus(currentStationId) = "development"
    /\ setActiveTab("historical") \/ setSelectedDays

\* C19: a refresh of a station under development issues no request and
\* starts no timer, and leaves weatherData null, error at the
\* under-development message and loading false; a refresh of its
\* historical data issues no request either and leaves historicalData
\* empty, historicalError set and historicalLoading as it was.
DevelopmentRefresh ==
    [][/\ \A s \in StationIds :
            ( /\ StationStatus(s) = "development"
              /\ rev = "Map" \/ s # currentStationId
              /\ handleStationSelect(s) )
            => /\ reqs' = reqs
               /\ timers' \subseteq timers
               /\ \A t \in timers' : t.key # s
               /\ weatherData' = NoData
               /\ error' = DevelopmentMessage
               /\ loading' = FALSE
       /\ HistoricalDevelopmentRefresh
            => /\ hreqs' = hreqs
               /\ historicalData' = <<>>
               /\ historicalError' = NoHistoryHome
               /\ historicalLoading' = historicalLoading]_vars

\* C19: the station under development was picked while the historical data
\* of the active one was still being fetched, and the historical tab was
\* opened again
DevelopmentStationShown ==
    /\ rev = "Home"
    /\ StationStatus(currentStationId) = "development"
    /\ weatherData = NoData
    /\ error = UnderDevelopmentHome
    /\ ~loading
    /\ activeTab = "historical"
    /\ historicalData = <<>>
    /\ historicalError = NoHistoryHome
    /\ historicalLoading
    /\ Len(hreqs) = 1

\* ---------------------------------------------------------------- C21
\* C21: requestLoading is true exactly while a POST /request-data is in
\* flight (it is false again after every outcome), the submit button is
\* disabled for that time, and so at most one submission is in flight.
OneSubmissionInFlight ==
    /\ requestLoading <=> posts # <<>>
    /\ Len(posts) <= 1
    /\ FormShown /\ posts # <<>> => SubmitDisabled

\* C21: the form is on the screen while the answer to its submission is
\* being read
SubmissionInFlight ==
    /\ FormShown
    /\ requestLoading
    /\ Len(posts) = 1
    /\ posts[1].phase = "json"

\* ---------------------------------------------------------------- C22
\* C22: every submission that ends leaves one notification on, of type
\* 'success' exactly when the response was accepted (2xx) and of type
\* 'error' otherwise, and the sidebar changes only by being closed after
\* an accepted response.
SubmissionNotified ==
    [][ (rev \in NoticeRevisions /\ Len(posts) = 1 /\ posts' = <<>>)
          => LET accepted ==
                    IF posts[1].phase = "json" THEN posts[1].status = OkStatus
                    ELSE PostResolves(1, OkStatus)
             IN  /\ notification'.show
                 /\ notification'.type =
                       (IF accepted THEN "success" ELSE "error")
                 /\ isSidebarOpen' # isSidebarOpen
                       => accepted /\ ~isSidebarOpen' ]_vars

\* ---------------------------------------------------------------- C23
\* what the validation gate promises of a form that is sent
Complete(f) ==
    /\ f.email # <<>>
    /\ f.start_date # NoDate
    /\ f.end_date # NoDate
    /\ ~(f.start_date > f.end_date)

\* C23: onSubmit, and with it the POST, is reached only by a form that
\* passes validation: every POST in flight carries an email, a start and
\* an end date with start_date not later than end_date.
OnlyValidFormsPosted == \A i \in 1..Len(posts) : Complete(posts[i].form)

\* ---------------------------------------------------------------- C25
\* C25: currentView is 'homepage' or 'weather', and while it is 'homepage'
\* the sidebar is closed, whatever happened on the dashboard before the
\* user went home and whatever submission ends afterwards.
SidebarClosedAtHome ==
    /\ currentView \in {"homepage", "weather"}
    /\ currentView = "homepage" => ~isSidebarOpen

\* ---------------------------------------------------------------- C24
\* what the user does on the dashboard
UserStep ==
    \/ \E s \in StationIds : handleStationSelect(s)
    \/ closeNotification
    \/ Unmount

\* C24: unless the user keeps acting for ever, a notification that is on
\* the screen is hidden again, also while polling goes on; and a dismiss
\* timer is pending only while a notification is on the screen.
NotificationDismissed ==
    /\ [](dismissIn # Idle => NoticeRendered)
    /\ \/ []<><<UserStep>>_vars
       \/ NoticeRendered ~> ~NoticeRendered

====
